---- MODULE Spec2Model ----
(* Model of the call-state wrapper hook (useGameApi / apiCall) and of the   *)
(* API client (axios instance with interceptors, gameAPI) of Cave Explorer. *)
(* The HTTP transport (axios + server) is the environment: each request is  *)
(* answered by one transport outcome drawn from TransportOutcomes.          *)
EXTENDS Integers, Sequences, FiniteSets, TLC

(* ---------------------------------------------------------------------- *)
(* Bounds                                                                   *)
(* ---------------------------------------------------------------------- *)
MaxInFlight == 2

Slots == 1..MaxInFlight

(* ---------------------------------------------------------------------- *)
(* JavaScript values: a type tag and a printed value                        *)
(* ---------------------------------------------------------------------- *)
Undefined == [t |-> "undefined", v |-> ""]

Null == [t |-> "null", v |-> ""]

Str(s) == [t |-> "string", v |-> s]

True == [t |-> "boolean", v |-> "true"]

\* JavaScript ToBoolean, as used by `if (x)` and `x || y`
Truthy(x) ==
  CASE x.t \in {"undefined", "null"} -> FALSE
    [] x.t = "string" -> x.v # ""
    [] x.t = "boolean" -> x.v = "true"
    [] OTHER -> TRUE

\* JavaScript `a || b`
Or(a, b) == IF Truthy(a) THEN a ELSE b

(* A decoded response body: a primitive (null, string) or an object with a *)
(* payload and an `error` property (et/ev: the property's value; undefined  *)
(* when the property is absent).                                            *)
Prim(x) == [t |-> x.t, v |-> x.v, et |-> "undefined", ev |-> ""]

Obj(payload, err) == [t |-> "object", v |-> payload, et |-> err.t, ev |-> err.v]

NullBody == Prim(Null)

ErrorFieldValues == {Undefined, Null, Str(""), Str("invalid path"), True}

Bodies == {NullBody, Prim(Str(""))} \cup {Obj("abc123", e) : e \in ErrorFieldValues}

(* ---------------------------------------------------------------------- *)
(* Error objects                                                            *)
(* ---------------------------------------------------------------------- *)
\* status = NoStatus models an error without a response (error.response undefined)
NoStatus == 0

NoErr == [cls |-> "none", message |-> "", code |-> "", status |-> NoStatus]

\* `new Error(msg)`: a fresh object with no code and no response
NewError(msg) == [cls |-> "Error", message |-> msg, code |-> "", status |-> NoStatus]

\* thrown by the engine when a property of null is read
TypeErrorMessage == "Cannot read properties of null (reading 'error')"

TypeError == [cls |-> "TypeError", message |-> TypeErrorMessage, code |-> "", status |-> NoStatus]

AxiosError(msg, code, status) == [cls |-> "AxiosError", message |-> msg, code |-> code, status |-> status]

TransportErrors ==
  { AxiosError("Request failed with status code 400", "ERR_BAD_REQUEST", 400),
    AxiosError("Request failed with status code 404", "ERR_BAD_REQUEST", 404),
    AxiosError("Request failed with status code 422", "ERR_BAD_REQUEST", 422),
    AxiosError("Request failed with status code 500", "ERR_BAD_RESPONSE", 500),
    AxiosError("Request failed with status code 503", "ERR_BAD_RESPONSE", 503),
    AxiosError("timeout of 10000ms exceeded", "ECONNABORTED", NoStatus),
    AxiosError("Network Error", "ERR_NETWORK", NoStatus),
    AxiosError("", "ERR_NETWORK", NoStatus) }

(* ---------------------------------------------------------------------- *)
(* Transport outcomes: what the axios adapter settles a request with       *)
(* ---------------------------------------------------------------------- *)
Fulfilled(status, body) == [ok |-> TRUE, status |-> status, data |-> body, err |-> NoErr]

Rejected(e) == [ok |-> FALSE, status |-> e.status, data |-> NullBody, err |-> e]

SuccessStatuses == {200, 201}

TransportOutcomes ==
  {Fulfilled(s, b) : s \in SuccessStatuses, b \in Bodies} \cup {Rejected(e) : e \in TransportErrors}

NoOutcome == [ok |-> FALSE, status |-> NoStatus, data |-> NullBody, err |-> NoErr]

(* ---------------------------------------------------------------------- *)
(* API client: response interceptor and the six operations                  *)
(* ---------------------------------------------------------------------- *)
Operations == {"startGame", "takeTurn", "getGameState", "revealProvenance", "endSession", "healthCheck"}

\* axios.create({ timeout: 10000 })
TimeoutMs == 10000

\* response interceptor, success handler: the response is passed on as it is
ResponseHandler(response) == response

\* variant: the server-error test written `> 500`
ResponseErrorHandler_StrictlyAbove500(error) ==
  IF error.status # NoStatus /\ error.status = 404
    THEN NewError("Game session not found")
  ELSE IF error.status # NoStatus /\ error.status > 500
    THEN NewError("Server error - please try again later")
  ELSE IF error.code = "ECONNABORTED"
    THEN NewError("Request timeout - please check your connection")
  ELSE error

\* variant: the timeout test written against the code ETIMEDOUT
ResponseErrorHandler_TimedOutCode(error) ==
  IF error.status # NoStatus /\ error.status = 404
    THEN NewError("Game session not found")
  ELSE IF error.status # NoStatus /\ error.status >= 500
    THEN NewError("Server error - please try again later")
  ELSE IF error.code = "ETIMEDOUT"
    THEN NewError("Request timeout - please check your connection")
  ELSE error

\* response interceptor, error handler: the error object it throws
\* (error.response?.status is undefined, and no test on it succeeds, when
\* the error carries no response)
ResponseErrorHandler(error) ==
  IF error.status # NoStatus /\ error.status = 404
    THEN NewError("Game session not found")
  ELSE IF error.status # NoStatus /\ error.status >= 500
    THEN NewError("Server error - please try again later")
  ELSE IF error.code = "ECONNABORTED"
    THEN NewError("Request timeout - please check your connection")
  ELSE error

\* method and path of the single request an operation issues
Request(op) ==
  CASE op = "startGame" -> [method |-> "POST", path |-> "/start_game"]
    [] op = "takeTurn" -> [method |-> "POST", path |-> "/take_turn"]
    [] op = "getGameState" -> [method |-> "GET", path |-> "/game_state/{id}"]
    [] op = "revealProvenance" -> [method |-> "GET", path |-> "/reveal_game/{id}"]
    [] op = "endSession" -> [method |-> "DELETE", path |-> "/session/{id}"]
    [] op = "healthCheck" -> [method |-> "GET", path |-> "/health"]

NoRequest == [method |-> "", path |-> ""]

\* what an invocation does that is seen outside it: a line written to the
\* console, a request handed to the transport, the operation's completion
SendEvent(req) == [kind |-> "send", label |-> "", method |-> req.method, path |-> req.path]

LogEvent(label) == [kind |-> "log", label |-> label, method |-> "", path |-> ""]

ReturnEvent == [kind |-> "return", label |-> "", method |-> "", path |-> ""]

RaiseEvent == [kind |-> "raise", label |-> "", method |-> "", path |-> ""]

\* variant: the request is logged whatever the flag
RequestInterceptor_AlwaysLogs(enabled) == <<LogEvent("API Request:")>>

\* request interceptor, success handler: console.log under the flag
\* VITE_ENABLE_LOGGING === 'true'; the config is passed on
RequestInterceptor(enabled) == IF enabled THEN <<LogEvent("API Request:")>> ELSE <<>>

\* response interceptor: console.log of a response under the flag,
\* console.error of an error whatever the flag
ResponseInterceptorLog(enabled, out) ==
  IF out.ok
    THEN IF enabled THEN <<LogEvent("API Response:")>> ELSE <<>>
    ELSE <<LogEvent("API Response Error:")>>

\* variant: endSession sent with api.post
gameAPICall_EndSessionPosts(op, enabled) ==
  RequestInterceptor(enabled) \o
    <<SendEvent(IF op = "endSession" THEN [method |-> "POST", path |-> "/session/{id}"] ELSE Request(op))>>

\* an operation called: its one api.post/get/delete runs the request
\* interceptor and then hands the request to the transport
gameAPICall(op, enabled) == RequestInterceptor(enabled) \o <<SendEvent(Request(op))>>

\* an operation resumed with out: the response interceptor runs, then the
\* operation returns or raises to its caller; no request is issued
gameAPIResume(enabled, out) ==
  ResponseInterceptorLog(enabled, out) \o <<IF out.ok THEN ReturnEvent ELSE RaiseEvent>>

\* an operation resumed with the transport outcome of its request:
\* it returns response.data, or the interceptor's error propagates
gameAPI(op, out) ==
  IF out.ok
    THEN [thrown |-> NoErr, data |-> ResponseHandler(out).data]
    ELSE [thrown |-> ResponseErrorHandler(out.err), data |-> NullBody]

(* ---------------------------------------------------------------------- *)
(* Call-state wrapper: apiCall                                              *)
(* ---------------------------------------------------------------------- *)
NoWrite == [t |-> "nowrite", v |-> ""]

GenericMessage == "An unexpected error occurred"

\* variant: the error of the previous invocation is not reset
apiCallEnter_KeepsError(l, e) == [loading |-> TRUE, error |-> e]

\* variant: the in-flight flag is not raised
apiCallEnter_KeepsLoading(l, e) == [loading |-> l, error |-> Str("")]

\* setLoading(true); setError(''), from the current loading l and error e
apiCallEnter(l, e) == [loading |-> TRUE, error |-> Str("")]

\* variant: the message is stored without the fallback
apiCallCatch_NoFallback(err) == Str(err.message)

\* the catch block: the value passed to setError
apiCallCatch(err) == Or(Str(err.message), Str(GenericMessage))

\* variant: an embedded error is reported with the generic message
apiCallTry_GenericForErrorField(c) ==
  IF c.thrown # NoErr
    THEN [path |-> "catch", wrote |-> apiCallCatch(c.thrown), ret |-> NullBody, promise |-> "resolved"]
  ELSE IF c.data.t \in {"null", "undefined"}
    THEN [path |-> "catch", wrote |-> apiCallCatch(TypeError), ret |-> NullBody, promise |-> "resolved"]
  ELSE IF Truthy([t |-> c.data.et, v |-> c.data.ev])
    THEN [path |-> "error_field", wrote |-> Str(GenericMessage), ret |-> NullBody, promise |-> "resolved"]
  ELSE [path |-> "result", wrote |-> NoWrite, ret |-> c.data, promise |-> "resolved"]

\* variant: the success path resets the error
apiCallTry_SuccessClearsError(c) ==
  IF c.thrown # NoErr
    THEN [path |-> "catch", wrote |-> apiCallCatch(c.thrown), ret |-> NullBody, promise |-> "resolved"]
  ELSE IF c.data.t \in {"null", "undefined"}
    THEN [path |-> "catch", wrote |-> apiCallCatch(TypeError), ret |-> NullBody, promise |-> "resolved"]
  ELSE IF Truthy([t |-> c.data.et, v |-> c.data.ev])
    THEN [path |-> "error_field", wrote |-> [t |-> c.data.et, v |-> c.data.ev], ret |-> NullBody, promise |-> "resolved"]
  ELSE [path |-> "result", wrote |-> Str(""), ret |-> c.data, promise |-> "resolved"]

\* variant: the catch block stores the message and rethrows
apiCallTry_Rethrows(c) ==
  IF c.thrown # NoErr
    THEN [path |-> "catch", wrote |-> apiCallCatch(c.thrown), ret |-> NullBody, promise |-> "rejected"]
  ELSE IF c.data.t \in {"null", "undefined"}
    THEN [path |-> "catch", wrote |-> apiCallCatch(TypeError), ret |-> NullBody, promise |-> "rejected"]
  ELSE IF Truthy([t |-> c.data.et, v |-> c.data.ev])
    THEN [path |-> "error_field", wrote |-> [t |-> c.data.et, v |-> c.data.ev], ret |-> NullBody, promise |-> "resolved"]
  ELSE [path |-> "result", wrote |-> NoWrite, ret |-> c.data, promise |-> "resolved"]

\* the try/catch of apiCall resumed with the operation's completion c:
\* the path taken, the value passed to setError (NoWrite: no call), the
\* value returned and how the promise of apiCall settles. Reading
\* result.error of a null result throws a TypeError inside the try.
apiCallTry(c) ==
  IF c.thrown # NoErr
    THEN [path |-> "catch", wrote |-> apiCallCatch(c.thrown), ret |-> NullBody, promise |-> "resolved"]
  ELSE IF c.data.t \in {"null", "undefined"}
    THEN [path |-> "catch", wrote |-> apiCallCatch(TypeError), ret |-> NullBody, promise |-> "resolved"]
  ELSE IF Truthy([t |-> c.data.et, v |-> c.data.ev])
    THEN [path |-> "error_field", wrote |-> [t |-> c.data.et, v |-> c.data.ev], ret |-> NullBody, promise |-> "resolved"]
  ELSE [path |-> "result", wrote |-> NoWrite, ret |-> c.data, promise |-> "resolved"]

\* variant: the flag is lowered in the try body only, not in a finally
apiCallFinally_OnlyAfterTry(path) == path = "catch"

\* the finally block: the value passed to setLoading
apiCallFinally(path) == FALSE

(* ---------------------------------------------------------------------- *)
(* State                                                                    *)
(* ---------------------------------------------------------------------- *)
\* useState(false)
VARIABLE loading

\* useState('')
VARIABLE error

\* the invocations of apiCall: slot -> [pc, op, req, events]
VARIABLE inv

\* import.meta.env.VITE_ENABLE_LOGGING === 'true', fixed by the build
VARIABLE logging

\* record of the invocation that settled most recently
VARIABLE last

\* the operation that produced the current state
VARIABLE step

\* the latest invocation started while another was in flight
VARIABLE overlap

vars == <<loading, error, inv, last, step, overlap, logging>>

IdleSlot == [pc |-> "idle", op |-> "none", req |-> NoRequest, events |-> <<>>]

NoLast ==
  [op |-> "none", out |-> NoOutcome, thrown |-> NoErr, data |-> NullBody,
   path |-> "none", wrote |-> NoWrite, ret |-> NullBody, promise |-> "none",
   events |-> <<>>]

InFlight == {i \in Slots : inv[i].pc = "awaiting"}

Init ==
  /\ loading = FALSE
  /\ error = Str("")
  /\ inv = [i \in Slots |-> IdleSlot]
  /\ last = NoLast
  /\ step = "init"
  /\ overlap = FALSE
  /\ logging \in BOOLEAN

\* apiCall(gameAPI[op], ...args) up to its await: the state is reset and
\* the operation issues its request
Start(op) ==
  /\ \E i \in Slots :
       /\ inv[i].pc = "idle"
       /\ \A j \in Slots : j < i => inv[j].pc # "idle"
       /\ inv' = [inv EXCEPT ![i] = [pc |-> "awaiting", op |-> op, req |-> Request(op),
                                       events |-> gameAPICall(op, logging)]]
  /\ loading' = apiCallEnter(loading, error).loading
  /\ error' = apiCallEnter(loading, error).error
  /\ overlap' = (InFlight # {})
  /\ step' = "start"
  /\ UNCHANGED <<last, logging>>

\* the request of invocation i is answered with out; apiCall resumes and
\* runs to its end
Settle(i, out) ==
  /\ inv[i].pc = "awaiting"
  /\ LET c == gameAPI(inv[i].op, out)
         r == apiCallTry(c)
     IN /\ error' = IF r.wrote = NoWrite THEN error ELSE r.wrote
        /\ loading' = apiCallFinally(r.path)
        /\ last' = [op |-> inv[i].op, out |-> out, thrown |-> c.thrown, data |-> c.data,
                    path |-> r.path, wrote |-> r.wrote, ret |-> r.ret, promise |-> r.promise,
                    events |-> inv[i].events \o gameAPIResume(logging, out)]
  /\ inv' = [inv EXCEPT ![i] = IdleSlot]
  /\ step' = "settle"
  /\ UNCHANGED <<overlap, logging>>

\* variant: a reset that also lowers the in-flight flag
ClearError_ResetsLoading ==
  /\ error' = Str("")
  /\ loading' = FALSE
  /\ step' = "clear"
  /\ UNCHANGED <<inv, last, overlap, logging>>

\* clearError: () => setError('')
ClearError ==
  /\ error' = Str("")
  /\ step' = "clear"
  /\ UNCHANGED <<loading, inv, last, overlap, logging>>

Next ==
  \/ \E op \in Operations : Start(op)
  \/ \E i \in Slots, out \in TransportOutcomes : Settle(i, out)
  \/ ClearError

Spec == Init /\ [][Next]_vars

\* one transport outcome for each path through the interceptor and apiCall:
\* result returned, embedded error, null body, 404, 5xx, timeout, rethrown
LiveOutcomes ==
  { Fulfilled(200, Obj("abc123", Undefined)),
    Fulfilled(200, Obj("abc123", Str("invalid path"))),
    Fulfilled(200, NullBody),
    Rejected(AxiosError("Request failed with status code 404", "ERR_BAD_REQUEST", 404)),
    Rejected(AxiosError("Request failed with status code 500", "ERR_BAD_RESPONSE", 500)),
    Rejected(AxiosError("timeout of 10000ms exceeded", "ECONNABORTED", NoStatus)),
    Rejected(AxiosError("Network Error", "ERR_NETWORK", NoStatus)) }

\* one operation for each HTTP method
LiveOperations == {"startGame", "getGameState", "endSession"}

LiveNext ==
  \/ \E op \in LiveOperations : Start(op)
  \/ \E i \in Slots, out \in LiveOutcomes : Settle(i, out)
  \/ ClearError

\* the transport answers every request: with a response, an error, or the
\* timeout of TimeoutMs at the latest
Fairness == \A i \in Slots : WF_vars(\E out \in LiveOutcomes : Settle(i, out))

FairSpec == Init /\ [][LiveNext]_vars /\ Fairness

(* ---------------------------------------------------------------------- *)
(* Properties                                                               *)
(* ---------------------------------------------------------------------- *)
\* result.error of a body that is not null
ErrorField(body) == [t |-> body.et, v |-> body.ev]

Settled == step = "settle"

\* the invocation that settled last did not overlap any other
Alone == ~overlap

LastStatus == last.out.err.status

\* C1: when an invocation has settled, whatever its outcome, loading is
\* false, and loading is false whenever no invocation is in flight.
C1_LoadingFalseAfterSettle ==
  /\ Settled => loading = FALSE
  /\ InFlight = {} => loading = FALSE

C1_Witness ==
  /\ Settled /\ InFlight = {} /\ loading = FALSE
  /\ last.out.err.code = "ECONNABORTED" /\ last.path = "catch"

\* C2: a non-overlapping invocation answered 2xx with a body without an
\* error field (a null body included) ends with loading false, error ''
\* and a non-null result equal to the body.
C2_SuccessYieldsBody ==
  (Settled /\ Alone /\ last.out.ok /\ last.out.data.et = "undefined")
    => /\ loading = FALSE
       /\ error = Str("")
       /\ last.ret # NullBody
       /\ last.ret = last.out.data

\* C3: a 2xx response whose body has a truthy error field is returned by
\* the client without exception; the wrapper stores exactly that value as
\* error, returns null and its promise resolves.
C3_EmbeddedErrorStored ==
  (Settled /\ last.out.ok /\ last.out.data.t = "object" /\ Truthy(ErrorField(last.out.data)))
    => /\ last.thrown = NoErr
       /\ last.data = last.out.data
       /\ error = ErrorField(last.out.data)
       /\ last.ret = NullBody
       /\ last.promise = "resolved"

C3_Witness ==
  /\ Settled /\ last.op = "takeTurn"
  /\ last.out = Fulfilled(200, Obj("abc123", Str("invalid path")))
  /\ error = Str("invalid path") /\ last.ret = NullBody

\* C4: status 404 gives null and 'Game session not found', any status
\* >= 500 gives null and 'Server error - please try again later'; the
\* client throws a new normalized error in place of the transport error
\* and the promise of the wrapper resolves.
C4_NotFoundAndServerError ==
  /\ (Settled /\ ~last.out.ok /\ LastStatus = 404)
       => /\ error = Str("Game session not found")
          /\ last.thrown = NewError("Game session not found")
          /\ last.thrown # last.out.err
          /\ last.ret = NullBody /\ last.promise = "resolved"
  /\ (Settled /\ ~last.out.ok /\ LastStatus >= 500)
       => /\ error = Str("Server error - please try again later")
          /\ last.thrown = NewError("Server error - please try again later")
          /\ last.thrown # last.out.err
          /\ last.ret = NullBody /\ last.promise = "resolved"

C4_Witness ==
  /\ Settled /\ ~last.out.ok /\ LastStatus = 500
  /\ error = Str("Server error - please try again later") /\ last.ret = NullBody

\* C5: a request aborted on the 10000 ms deadline (code ECONNABORTED, no
\* response) gives null, error 'Request timeout - please check your
\* connection' and loading false.
C5_Timeout ==
  (Settled /\ ~last.out.ok /\ LastStatus = NoStatus /\ last.out.err.code = "ECONNABORTED")
    => /\ error = Str("Request timeout - please check your connection")
       /\ last.ret = NullBody
       /\ loading = FALSE
       /\ TimeoutMs = 10000

C5_Witness ==
  /\ Settled /\ ~last.out.ok /\ last.out.err.code = "ECONNABORTED"
  /\ last.out.err.message = "timeout of 10000ms exceeded"
  /\ error = Str("Request timeout - please check your connection")

\* C6: a transport failure that is neither 404, nor >= 500, nor a timeout
\* is thrown by the client as the same error, unchanged; the wrapper stores
\* its message, or the generic string when the message is empty, and
\* returns null.
C6_OtherFailurePropagates ==
  (Settled /\ ~last.out.ok /\ LastStatus # 404 /\ LastStatus < 500
     /\ last.out.err.code # "ECONNABORTED")
    => /\ last.thrown = last.out.err
       /\ error = IF last.out.err.message # "" THEN Str(last.out.err.message)
                                                ELSE Str(GenericMessage)
       /\ last.ret = NullBody

C6_Witness ==
  /\ Settled /\ ~last.out.ok /\ last.out.err.message = ""
  /\ last.thrown = last.out.err /\ error = Str(GenericMessage)

\* C7: clearError, in any state, sets error to '' and leaves loading and
\* every invocation as they are.
C7_ClearErrorFrame ==
  [][step' = "clear" => (error' = Str("") /\ loading' = loading /\ inv' = inv)]_vars

C7_Witness ==
  /\ step = "clear" /\ error = Str("") /\ loading = TRUE
  /\ Cardinality(InFlight) = 2

\* C8 (as stated): once two overlapping invocations have both settled,
\* loading is false and error is the last settler's error, or '' if the
\* last settler succeeded.
C8_LastSettlerWins ==
  (Settled /\ overlap /\ InFlight = {})
    => /\ loading = FALSE
       /\ error = IF last.path = "result" THEN Str("") ELSE last.wrote

\* C8 (amended): an invocation started while another is in flight is issued
\* next to it; once all have settled loading is false; error is the last
\* settler's error if it failed, and a settler that succeeds leaves error
\* as it found it.
C8_LastFailureWins ==
  /\ [](step = "start" /\ overlap => Cardinality(InFlight) >= 2)
  /\ []((Settled /\ InFlight = {}) => loading = FALSE)
  /\ []((Settled /\ last.path # "result") => error = last.wrote)
  /\ [][(step' = "settle" /\ last'.path = "result") => error' = error]_vars

C8_Witness ==
  /\ Settled /\ overlap /\ InFlight = {} /\ loading = FALSE
  /\ last.path = "result" /\ error = Str("Network Error")

\* C9 (as stated): loading is true exactly when some invocation is in flight.
C9_LoadingIffInFlight == loading = (InFlight # {})

\* C9 (amended): loading is never true when no invocation is in flight,
\* and as long as the latest invocation started with no other in flight
\* loading is true exactly when an invocation is in flight.
C9_LoadingImpliesInFlight ==
  /\ loading => InFlight # {}
  /\ Alone => (loading = (InFlight # {}))

C9_Witness == Alone /\ loading /\ InFlight # {} /\ last.op # "none"

\* C10: an invocation that has just started has loading true, error '' and
\* its request issued; in a non-overlapping run error is '' while the
\* invocation is in flight and after it succeeded.
C10_StartResets ==
  /\ step = "start" =>
       /\ loading = TRUE /\ error = Str("")
       /\ \E i \in InFlight : inv[i].req = Request(inv[i].op)
  /\ (Alone /\ InFlight # {}) => error = Str("")
  /\ (Alone /\ Settled /\ last.path = "result") => error = Str("")

C10_Witness ==
  /\ step = "start" /\ Alone /\ last.path = "catch" /\ error = Str("")

\* the requests among the events of an invocation
Sends(events) == SelectSeq(events, LAMBDA e : e.kind = "send")

\* C11: every invocation issues exactly one request, with the method and
\* path of the operation table, and a settled invocation, failed or not,
\* has issued no other; the requests outstanding are those of the
\* invocations in flight.
C11_OneRequestPerInvocation ==
  LET Table(op) ==
        CASE op = "startGame" -> SendEvent([method |-> "POST", path |-> "/start_game"])
          [] op = "takeTurn" -> SendEvent([method |-> "POST", path |-> "/take_turn"])
          [] op = "getGameState" -> SendEvent([method |-> "GET", path |-> "/game_state/{id}"])
          [] op = "revealProvenance" -> SendEvent([method |-> "GET", path |-> "/reveal_game/{id}"])
          [] op = "endSession" -> SendEvent([method |-> "DELETE", path |-> "/session/{id}"])
          [] op = "healthCheck" -> SendEvent([method |-> "GET", path |-> "/health"])
  IN /\ \A i \in Slots :
          /\ inv[i].pc = "awaiting" => Sends(inv[i].events) = <<Table(inv[i].op)>>
          /\ inv[i].pc = "idle" => Sends(inv[i].events) = <<>>
     /\ last.op # "none" => Sends(last.events) = <<Table(last.op)>>

C11_Witness ==
  /\ Settled /\ InFlight = {} /\ last.op = "endSession" /\ last.path = "catch"
  /\ LastStatus = 503
  /\ Sends(last.events) = <<SendEvent([method |-> "DELETE", path |-> "/session/{id}"])>>

\* in events, every event of one of the kinds is preceded by the line label
LoggedBefore(events, label, kinds) ==
  \A b \in DOMAIN events :
    events[b].kind \in kinds => \E a \in DOMAIN events : a < b /\ events[a] = LogEvent(label)

\* C12: with the logging flag enabled every request is written to the
\* console before it is sent and every response, success or failure, before
\* the operation returns or raises; with the flag disabled no request and
\* no successful response is written.
C12_LoggingOrder ==
  LET SendKind == {"send"}
      DoneKinds == {"return", "raise"}
      IsSend(e) == e.kind \in SendKind
      IsDone(e) == e.kind \in DoneKinds
      Quiet(events) ==
        \A a \in DOMAIN events : events[a].label \notin {"API Request:", "API Response:"}
  IN /\ logging =>
          /\ \A i \in InFlight :
               /\ LoggedBefore(inv[i].events, "API Request:", SendKind)
               /\ \E b \in DOMAIN inv[i].events : IsSend(inv[i].events[b])
          /\ last.op # "none" =>
               /\ LoggedBefore(last.events, "API Request:", SendKind)
               /\ LoggedBefore(last.events,
                               IF last.out.ok THEN "API Response:" ELSE "API Response Error:",
                               DoneKinds)
               /\ IsDone(last.events[Len(last.events)])
     /\ ~logging =>
          /\ \A i \in Slots : Quiet(inv[i].events)
          /\ Quiet(last.events)
          /\ last.op # "none" => IsDone(last.events[Len(last.events)])

C12_Witness ==
  /\ logging /\ Settled /\ last.op = "healthCheck" /\ last.out.ok
  /\ last.events = <<LogEvent("API Request:"),
                     SendEvent([method |-> "GET", path |-> "/health"]),
                     LogEvent("API Response:"), ReturnEvent>>

\* C13: when the transport answers every request, every started invocation
\* settles, and its promise is resolved, never rejected; while no invocation
\* is in flight loading is false, and it becomes true only by the start of
\* an invocation.
C13_EveryInvocationSettles ==
  /\ \A i \in Slots : (inv[i].pc = "awaiting") ~> (inv[i].pc = "idle")
  /\ [](last.op # "none" => last.promise = "resolved")
  /\ [](InFlight = {} => loading = FALSE)
  /\ [][(loading = FALSE /\ loading' = TRUE) => step' = "start"]_vars

C13_Witness ==
  /\ Settled /\ overlap /\ InFlight = {} /\ loading = FALSE
  /\ last.path = "catch" /\ last.promise = "resolved" /\ last.op = "getGameState"

====
